---------------------------- MODULE Spec2Model ----------------------------
(***************************************************************************)
(* A model of the transcript clipper (src/clipper.py): the text            *)
(* normalizer, the timeline builder, the match locator and the run of      *)
(* main() with its three-tier clip acquisition.                            *)
(*                                                                         *)
(* Text is a sequence of one-character strings.  Times are integer         *)
(* milliseconds (the code divides the payload's milliseconds by 1000.0).   *)
(* A score (a float in the code) is an exact fraction [num, den].          *)
(***************************************************************************)
EXTENDS Integers, Sequences, FiniteSets, TLC

VARIABLES
    \* a call of normalize, and a second call on its result
    nText, nOnce, nTwice, nPc,
    \* a call of read_segments_from_json3
    data, kept, rawSegments, segments, tPc,
    \* a call of find_best_match
    mSegments, mQuery, mMaxWindow, mResult, mPc,
    \* a run of main()
    args,             \* the command line: query, before, after, max_window, output
    payload,          \* the caption payload the fetch service holds for the url
    pc,               \* where the run is
    runSegments,      \* segments (line 454)
    match,            \* <<>> or <<match>> (line 460)
    clip,             \* <<>> or <<[start, end]>>: clip_start, clip_end (465-466)
    requests,         \* the requests made to the fetch service, with their outcome
    probes,           \* the results of the calls of probe_duration
    download_result,  \* <<>> or <<[path, partial]>>
    trims,            \* the calls of the trim utility: source, start, end
    final_path,       \* <<>> or <<path>>
    captions,         \* <<>> or <<[start, end, entries]>>: the caption slicer's call
    fs,               \* the files: path -> content
    exit_status,      \* <<>> while running, then <<status>>
    error,            \* what raised, when the run ends with an error
    service,          \* tier -> whether the fetch service fulfils that request
    download_call,    \* <<>>, then <<the window download_clip was called with>>
    fs_before,        \* the files as they were before the run
    \* a call of write_subtitle_file
    sSegments, sClip, sEntries, sPc,
    \* invocations of fetch_transcript_segments in one working directory
    cDir,             \* .clipper_tmp: file name -> <<>> or <<[owner, mtime]>>
    cClock,           \* the modification time of the last file written
    cVideo,           \* invocation -> the video id its url names
    cPc,              \* invocation -> where it is in fetch_transcript_segments
    cStaged,          \* invocation -> whether its download wrote a payload
    cListed,          \* invocation -> json_files, newest first
    cParsed,          \* invocation -> <<>> or <<the file read as latest>>
    \* the lines write_subtitle_file makes of its entries
    fEntries, fLines, fPc,
    \* the title preview of the GUI, src/clipper_gui.py:229-270
    url_var,                \* the URL field, stripped
    title_fetch_after_id,   \* <<>>, or <<the url the pending timer carries>>
    title_request_counter,
    title_workers,          \* the lookups running: [url, job_id]
    title_results,          \* the results posted to the main loop, in order
    video_title_var,        \* the title label: [text, url]
    \* the child process of the GUI, src/clipper_gui.py:338-404
    process,                \* <<>>, or <<the process tracked>>
    run_button,             \* whether the Run button is enabled
    stop_button,            \* whether the Stop button is enabled
    children,               \* the child processes that are running
    streamed,               \* the output lines read from the child so far
    after_queue,            \* the callbacks posted to the main loop, in order
    spawned,                \* how many processes were launched
    terminated,             \* the processes Stop has terminated
    dialog                  \* the message box shown last

normVars == <<nText, nOnce, nTwice, nPc>>
timelineVars == <<data, kept, rawSegments, segments, tPc>>
matchVars == <<mSegments, mQuery, mMaxWindow, mResult, mPc>>
runVars == <<args, payload, pc, runSegments, match, clip, requests, probes,
             download_result, trims, final_path, captions, fs, exit_status,
             error, service, download_call, fs_before>>
slicerVars == <<sSegments, sClip, sEntries, sPc>>
\* the variables of the calls added after the first four groups
scratchVars == <<cDir, cClock, cVideo, cPc, cStaged, cListed, cParsed>>
srtVars == <<fEntries, fLines, fPc>>
\* the groups added after the scratch directory
titleVars == <<url_var, title_fetch_after_id, title_request_counter,
               title_workers, title_results, video_title_var>>
procVars == <<process, run_button, stop_button, children, streamed,
              after_queue, spawned, terminated, dialog>>
guiVars == <<titleVars, procVars>>
laterVars == <<srtVars, guiVars>>
moreVars == <<slicerVars, scratchVars, laterVars>>
vars == <<normVars, timelineVars, matchVars, runVars, moreVars>>

Max(a, b) == IF a >= b THEN a ELSE b
Min(a, b) == IF a <= b THEN a ELSE b
Abs(a) == IF a >= 0 THEN a ELSE 0 - a

\* All sequences over S of length 0..n.
SeqsUpTo(S, n) == UNION {[1..k -> S] : k \in 0..n}

---------------------------------------------------------------------------
(* Characters.                                                             *)

Whitespace == {" ", "\t"}
UpperCase == {"A", "B"}
LowerCase == {"a", "b", "c", "x"}
Punctuation == {","}

\* \s of the regular expressions
IsSpace(c) == c \in Whitespace
\* \w of the regular expressions (letters; Unicode-aware)
IsWord(c) == c \in UpperCase \cup LowerCase

\* str.lower() on one character
LowerChar(c) == CASE c = "A" -> "a" [] c = "B" -> "b" [] OTHER -> c

---------------------------------------------------------------------------
(* normalize, src/clipper.py:48-51                                         *)

\* re.sub(r"\s+", " ", text): every maximal whitespace run becomes one space.
RECURSIVE CollapseWhitespace(_)
CollapseWhitespace(text) ==
    IF text = <<>> THEN <<>>
    ELSE IF IsSpace(Head(text))
         THEN IF Len(text) > 1 /\ IsSpace(text[2])
              THEN CollapseWhitespace(Tail(text))
              ELSE <<" ">> \o CollapseWhitespace(Tail(text))
         ELSE <<Head(text)>> \o CollapseWhitespace(Tail(text))

\* str.strip(): leading and trailing whitespace removed.
RECURSIVE Strip(_)
Strip(text) ==
    IF text = <<>> THEN <<>>
    ELSE IF IsSpace(Head(text)) THEN Strip(Tail(text))
    ELSE IF IsSpace(text[Len(text)]) THEN Strip(SubSeq(text, 1, Len(text) - 1))
    ELSE text

\* str.lower()
Lower(text) == [i \in 1..Len(text) |-> LowerChar(text[i])]

\* re.sub(r"[^\w\s]", "", cleaned): characters neither word nor whitespace go.
StripPunctuation(text) == SelectSeq(text, LAMBDA c : IsWord(c) \/ IsSpace(c))

normalize(text) ==
    StripPunctuation(Lower(Strip(CollapseWhitespace(text))))

---------------------------------------------------------------------------
(* read_segments_from_json3, src/clipper.py:75-106                         *)

\* An optional field of an event: <<>> when absent (None), <<v>> when present.
Absent == <<>>
Some(v) == <<v>>
IsPresent(field) == field # <<>>
Value(field) == field[1]

\* "Fallback to one second duration", in milliseconds
DefaultDurationMs == 1000
\* current.end = current.start + 0.5, in milliseconds
MinSpanMs == 500

\* Lines 82-87: the end of one event, as the code computes it.  Python's
\* "not end_ms" is true of 0 only.
EventEndMs(event) ==
    LET start_ms == Value(event.tStartMs)
        byDuration == start_ms + (IF IsPresent(event.dDurationMs)
                                  THEN Value(event.dDurationMs) ELSE 0)
        byEnd == IF byDuration = 0 /\ IsPresent(event.tEndMs)
                 THEN Value(event.tEndMs) ELSE byDuration
    IN  IF byEnd = 0 THEN start_ms + DefaultDurationMs ELSE byEnd

\* Line 93: the fragments joined, whitespace collapsed and trimmed.
EventText(event) == Strip(CollapseWhitespace(event.text))

\* Lines 78-96: whether the first loop keeps the event.
KeepsEvent(event) == IsPresent(event.tStartMs) /\ EventText(event) # <<>>

\* Lines 78-96: the indices of the events the first loop keeps, in order.
KeptEvents(events) == SelectSeq([i \in 1..Len(events) |-> i],
                                LAMBDA i : KeepsEvent(events[i]))

\* Line 96: the segment built from one kept event.
RawSegment(event) ==
    [text |-> EventText(event),
     start |-> Value(event.tStartMs),
     end |-> EventEndMs(event)]

\* Lines 76-96: the list after the first loop.
BuildSegments(events) ==
    LET k == KeptEvents(events)
    IN  [j \in 1..Len(k) |-> RawSegment(events[k[j]])]

\* Lines 100-105: one step of the forward pass, on segs[idx] (1-based,
\* idx >= 2; the code's range(1, len) is 0-based).
ClampOne(segs, idx) ==
    LET prev == segs[idx - 1]
        current == segs[idx]
        start == IF current.start < prev.end THEN prev.end ELSE current.start
        end == IF current.end <= start THEN start + MinSpanMs ELSE current.end
    IN  [segs EXCEPT ![idx] = [current EXCEPT !.start = start, !.end = end]]

\* Lines 99-105: the forward pass from segs[idx] to the last segment.
RECURSIVE ClampFrom(_, _)
ClampFrom(segs, idx) ==
    IF idx > Len(segs) THEN segs ELSE ClampFrom(ClampOne(segs, idx), idx + 1)

\* Line 99: the pass starts at the second segment.
ClampTimeline(segs) == ClampFrom(segs, 2)

read_segments_from_json3(events) == ClampTimeline(BuildSegments(events))

---------------------------------------------------------------------------
(* difflib.SequenceMatcher(None, a, b).ratio(), as find_best_match uses    *)
(* it (no junk; texts shorter than the 200 characters of autojunk).        *)
(* Ranges are Python's: 0-based, half-open; a[i] of Python is a[i + 1].    *)

\* The length of the common prefix of a[i:ahi] and b[j:bhi].
RECURSIVE CommonLen(_, _, _, _, _, _)
CommonLen(a, i, ahi, b, j, bhi) ==
    IF i < ahi /\ j < bhi /\ a[i + 1] = b[j + 1]
    THEN 1 + CommonLen(a, i + 1, ahi, b, j + 1, bhi)
    ELSE 0

\* find_longest_match: <<i, j, k>> with a[i:i+k] = b[j:j+k], k maximal, and
\* among those the least i, then the least j; k = 0 when nothing matches.
LongestMatch(a, alo, ahi, b, blo, bhi) ==
    LET pairs == (alo..(ahi - 1)) \X (blo..(bhi - 1))
        K(p) == CommonLen(a, p[1], ahi, b, p[2], bhi)
        Earlier(p, q) == p[1] < q[1] \/ (p[1] = q[1] /\ p[2] <= q[2])
    IN  IF \A p \in pairs : K(p) = 0 THEN <<alo, blo, 0>>
        ELSE LET best == CHOOSE p \in pairs :
                            \A q \in pairs :
                                K(p) > K(q) \/ (K(p) = K(q) /\ Earlier(p, q))
             IN  <<best[1], best[2], K(best)>>

\* get_matching_blocks: the total size of the blocks, the longest one first,
\* then the same to its left and to its right.
RECURSIVE MatchCount(_, _, _, _, _, _)
MatchCount(a, alo, ahi, b, blo, bhi) ==
    IF alo >= ahi \/ blo >= bhi THEN 0
    ELSE LET m == LongestMatch(a, alo, ahi, b, blo, bhi)
         IN  IF m[3] = 0 THEN 0
             ELSE m[3] + MatchCount(a, alo, m[1], b, blo, m[2])
                       + MatchCount(a, m[1] + m[3], ahi, b, m[2] + m[3], bhi)

\* ratio() = 2.0 * matches / (len(a) + len(b)), as the pair <<2M, T>>;
\* a and b are not both empty here.
Ratio(a, b) ==
    <<2 * MatchCount(a, 0, Len(a), b, 0, Len(b)), Len(a) + Len(b)>>

---------------------------------------------------------------------------
(* find_best_match, src/clipper.py:109-136                                 *)

\* A score r[1]/r[2] + bonus/2 as the fraction num/den (den > 0).
Score(r, bonus) == [num |-> 2 * r[1] + bonus * r[2], den |-> 2 * r[2]]
ScoreGreater(x, y) == x.num * y.den > y.num * x.den
ScoreEqual(x, y) == x.num * y.den = y.num * x.den

\* "target in normalized"
IsSubstring(t, s) ==
    \E i \in 0..(Len(s) - Len(t)) : SubSeq(s, i + 1, i + Len(t)) = t

\* " ".join(seg.text for seg in window_segments), for segs[index : index + window]
RECURSIVE JoinTexts(_, _, _)
JoinTexts(segs, index, window) ==
    IF window = 0 THEN <<>>
    ELSE IF window = 1 THEN segs[index + 1].text
    ELSE segs[index + 1].text \o <<" ">> \o JoinTexts(segs, index + 1, window - 1)

\* A faulty bonus: a window holding the query gains nothing.
ExactBonus_none(target, normalized) == 0

\* Lines 125-126: the flat bonus, in halves, of a window holding the query.
ExactBonus(target, normalized) == IF IsSubstring(target, normalized) THEN 1 ELSE 0

\* Lines 124-126: the score of one window.
WindowScore(target, normalized) ==
    Score(Ratio(target, normalized), ExactBonus(target, normalized))

\* A faulty comparison: a candidate of the same score replaces the best.
Replaces_on_equal(score, best) ==
    best = <<>> \/ ~ScoreGreater(best[1].score, score)

\* Line 127: whether a candidate replaces the best so far (<<>> is None).
Replaces(score, best) == best = <<>> \/ ScoreGreater(score, best[1].score)

\* A faulty Match: its end is the end of the first segment of the window.
Consider_first_end(segs, target, index, window, best) ==
    LET combined == JoinTexts(segs, index, window)
        normalized == normalize(combined)
        score == WindowScore(target, normalized)
    IN  IF normalized = <<>> THEN best
        ELSE IF Replaces(score, best)
             THEN <<[text |-> combined,
                     start |-> segs[index + 1].start,
                     end |-> segs[index + 1].end,
                     score |-> score,
                     start_segment_index |-> index,
                     segment_count |-> window]>>
             ELSE best

\* Lines 119-135: the best after looking at the window (index, window).
Consider(segs, target, index, window, best) ==
    LET combined == JoinTexts(segs, index, window)
        normalized == normalize(combined)
        score == WindowScore(target, normalized)
    IN  IF normalized = <<>> THEN best
        ELSE IF Replaces(score, best)
             THEN <<[text |-> combined,
                     start |-> segs[index + 1].start,
                     end |-> segs[index + window].end,
                     score |-> score,
                     start_segment_index |-> index,
                     segment_count |-> window]>>
             ELSE best

\* Lines 117-135: the two loops, from (window, index) on.
RECURSIVE ScanWindows(_, _, _, _, _, _)
ScanWindows(segs, target, max_window, window, index, best) ==
    IF window > max_window THEN best
    ELSE IF index > Len(segs) - window
         THEN ScanWindows(segs, target, max_window, window + 1, 0, best)
         ELSE ScanWindows(segs, target, max_window, window, index + 1,
                          Consider(segs, target, index, window, best))

\* A faulty find_best_match: a query that normalizes to nothing is searched
\* for all the same.
find_best_match_searches_empty_query(segs, query, max_window) ==
    IF segs = <<>> THEN <<>>
    ELSE ScanWindows(segs, normalize(query), max_window, 1, 0, <<>>)

\* The result is <<>> (None) or <<match>>.
find_best_match(segs, query, max_window) ==
    IF segs = <<>> THEN <<>>
    ELSE IF normalize(query) = <<>> THEN <<>>
    ELSE ScanWindows(segs, normalize(query), max_window, 1, 0, <<>>)

---------------------------------------------------------------------------
(* download_clip, src/clipper.py:175-276                                   *)

\* Line 207: requested_duration = max(0.0, end - start)
RequestedDuration(start, end) == Max(0, end - start)

\* Line 208: duration_tolerance = max(1.0, requested_duration * 0.1); the
\* floor in milliseconds, and the tenth as a divisor.
ToleranceFloorMs == 1000
ToleranceDivisor == 10

\* A faulty comparison: a file exactly at the tolerance counts as imprecise.
WithinTolerance_strict(duration, requested) ==
    ToleranceDivisor * Abs(duration - requested)
        < Max(ToleranceDivisor * ToleranceFloorMs, requested)

\* Line 234: abs(duration - requested_duration) <= duration_tolerance, both
\* sides multiplied by ToleranceDivisor to stay in the integers.
WithinTolerance(duration, requested) ==
    ToleranceDivisor * Abs(duration - requested)
        <= Max(ToleranceDivisor * ToleranceFloorMs, requested)

\* A faulty assess_download: a file of unknown duration is taken as final.
assess_download_unknown_is_final(path, probed, requested) ==
    IF probed = <<>> THEN [path |-> path, partial |-> TRUE]
    ELSE IF requested = 0 THEN [path |-> path, partial |-> TRUE]
    ELSE [path |-> path, partial |-> WithinTolerance(probed[1], requested)]

\* Lines 227-242: assess_download; probed is <<>> (None) or <<duration>>.
\* partial = TRUE is the result main() takes as final without trimming.
assess_download(path, probed, requested) ==
    IF probed = <<>> THEN [path |-> path, partial |-> FALSE]
    ELSE IF requested = 0 THEN [path |-> path, partial |-> TRUE]
    ELSE IF WithinTolerance(probed[1], requested)
         THEN [path |-> path, partial |-> TRUE]
         ELSE [path |-> path, partial |-> FALSE]

\* A faulty return: the full download is taken as final.
FullDownloadResult_partial == [path |-> "full", partial |-> TRUE]

\* Lines 271-276: what download_clip returns after the full download.
FullDownloadResult == [path |-> "full", partial |-> FALSE]

\* A faulty control flow: the "else: return" of the first try is missing, so
\* the coarse-range request follows a precise-range request that succeeded.
AfterAttempt_continues_after_success(tier, ok) ==
    CASE tier = "precise" -> "tier2"
      [] tier = "coarse"  -> IF ok THEN "finalize" ELSE "tier3"
      [] tier = "full"    -> IF ok THEN "returned" ELSE "raise"

\* A faulty control flow: the first try catches nothing, so a failed
\* precise-range request ends download_clip.
AfterAttempt_range_failure_raises(tier, ok) ==
    CASE tier = "precise" -> IF ok THEN "finalize" ELSE "raise"
      [] tier = "coarse"  -> IF ok THEN "finalize" ELSE "tier3"
      [] tier = "full"    -> IF ok THEN "returned" ELSE "raise"

\* Lines 244-276: where download_clip goes after a request to the service.
AfterAttempt(tier, ok) ==
    CASE tier = "precise" -> IF ok THEN "finalize" ELSE "tier2"
      [] tier = "coarse"  -> IF ok THEN "finalize" ELSE "tier3"
      [] tier = "full"    -> IF ok THEN "returned" ELSE "raise"

---------------------------------------------------------------------------
(* write_subtitle_file, src/clipper.py:279-313                             *)

\* Lines 285-289
Relevant(segs, clip_start, clip_end) ==
    SelectSeq(segs, LAMBDA seg : ~(seg.end <= clip_start \/ seg.start >= clip_end))

\* Lines 285-289: the indices (1-based) of the relevant segments.
RelevantIndices(segs, clip_start, clip_end) ==
    SelectSeq([i \in 1..Len(segs) |-> i],
              LAMBDA i : ~(segs[i].end <= clip_start \/ segs[i].start >= clip_end))

\* A faulty slicer: the times are clipped to the window but not shifted to
\* the start of the clip.
SlicedEntries_unshifted(segs, clip_start, clip_end) ==
    LET idx == RelevantIndices(segs, clip_start, clip_end)
        all == [j \in 1..Len(idx) |->
                   [segment |-> idx[j],
                    start |-> Max(segs[idx[j]].start, clip_start),
                    end |-> Min(segs[idx[j]].end, clip_end),
                    text |-> Strip(CollapseWhitespace(segs[idx[j]].text))]]
    IN  SelectSeq(all, LAMBDA e : ~(e.end <= e.start) /\ e.text # <<>>)

\* Lines 295-307: the entries written, in order (times before formatting),
\* each with the index of the segment it comes from.
SlicedEntries(segs, clip_start, clip_end) ==
    LET rel == Relevant(segs, clip_start, clip_end)
        idx == RelevantIndices(segs, clip_start, clip_end)
        all == [j \in 1..Len(rel) |->
                   [segment |-> idx[j],
                    start |-> Max(rel[j].start, clip_start) - clip_start,
                    end |-> Min(rel[j].end, clip_end) - clip_start,
                    text |-> Strip(CollapseWhitespace(rel[j].text))]]
    IN  SelectSeq(all, LAMBDA e : ~(e.end <= e.start) /\ e.text # <<>>)

\* Lines 295-307: the entries written, in order (times before formatting).
SubtitleEntries(segs, clip_start, clip_end) ==
    LET sliced == SlicedEntries(segs, clip_start, clip_end)
    IN  [j \in 1..Len(sliced) |->
            [start |-> sliced[j].start, end |-> sliced[j].end,
             text |-> sliced[j].text]]

---------------------------------------------------------------------------
(* Bounds of the inputs.                                                   *)

\* the longest text given to normalize
MaxTextLen == 4
\* the most events of a caption payload
MaxEvents == 2
\* the most segments given to find_best_match
MaxSegments == 3
\* the largest max_window given to find_best_match
MaxWindow == 3
\* the most segments given to write_subtitle_file
MaxSlicedSegments == 2
\* the most entries whose lines are written
MaxSrtEntries == 2
\* the most title lookups and field clearings counted in the GUI
MaxTitleRequests == 3
\* the most child processes the GUI launches
MaxSpawns == 2
\* the most output lines read from one child
MaxLines == 2

---------------------------------------------------------------------------
(* Idle values of the variables a specification does not use.              *)

NormIdle == nText = <<>> /\ nOnce = <<>> /\ nTwice = <<>> /\ nPc = "idle"
TimelineIdle ==
    /\ data = <<>> /\ kept = <<>> /\ rawSegments = <<>> /\ segments = <<>>
    /\ tPc = "idle"
MatchIdle ==
    /\ mSegments = <<>> /\ mQuery = <<>> /\ mMaxWindow = 0 /\ mResult = <<>>
    /\ mPc = "idle"
SlicerIdle ==
    sSegments = <<>> /\ sClip = <<>> /\ sEntries = <<>> /\ sPc = "idle"
ScratchIdle ==
    /\ cDir = <<>> /\ cClock = 0 /\ cVideo = <<>> /\ cPc = <<>>
    /\ cStaged = <<>> /\ cListed = <<>> /\ cParsed = <<>>
SrtIdle == fEntries = <<>> /\ fLines = <<>> /\ fPc = "idle"
TitleIdle ==
    /\ url_var = <<>> /\ title_fetch_after_id = <<>> /\ title_request_counter = 0
    /\ title_workers = {} /\ title_results = <<>> /\ video_title_var = <<>>
ProcIdle ==
    /\ process = <<>> /\ run_button = FALSE /\ stop_button = FALSE
    /\ children = {} /\ streamed = 0 /\ after_queue = <<>> /\ spawned = 0
    /\ terminated = {} /\ dialog = "idle"
GuiIdle == TitleIdle /\ ProcIdle
LaterIdle == SrtIdle /\ GuiIdle
MoreIdle == SlicerIdle /\ ScratchIdle /\ LaterIdle
RunIdle ==
    /\ args = <<>> /\ payload = <<>> /\ pc = "idle" /\ runSegments = <<>>
    /\ match = <<>> /\ clip = <<>> /\ requests = <<>> /\ probes = <<>>
    /\ download_result = <<>> /\ trims = <<>> /\ final_path = <<>>
    /\ captions = <<>> /\ fs = <<>> /\ exit_status = <<>> /\ error = "none"
    /\ service = <<>> /\ download_call = <<>> /\ fs_before = <<>>

---------------------------------------------------------------------------
(* The Text Normalizer on every text of up to MaxTextLen characters.       *)

NormAlphabet == {"a", "B", " ", "\t", ","}

NormInit ==
    /\ nText \in SeqsUpTo(NormAlphabet, MaxTextLen)
    /\ nOnce = <<>> /\ nTwice = <<>> /\ nPc = "start"
    /\ TimelineIdle /\ MatchIdle /\ RunIdle /\ MoreIdle

\* cleaned = normalize(x)
NormalizeOnce ==
    /\ nPc = "start"
    /\ nOnce' = normalize(nText)
    /\ nPc' = "once"
    /\ UNCHANGED <<nText, nTwice, timelineVars, matchVars, runVars, moreVars>>

\* normalize(cleaned)
NormalizeTwice ==
    /\ nPc = "once"
    /\ nTwice' = normalize(nOnce)
    /\ nPc' = "twice"
    /\ UNCHANGED <<nText, nOnce, timelineVars, matchVars, runVars, moreVars>>

NormNext == NormalizeOnce \/ NormalizeTwice

SpecNormalize == NormInit /\ [][NormNext]_vars

---------------------------------------------------------------------------
(* The Timeline Builder on every payload of up to MaxEvents events.        *)

EventStarts == {Absent, Some(0), Some(1000)}
EventDurations == {Absent, Some(0), Some(1000)}
EventEnds == {Absent, Some(500), Some(2000)}
EventTexts == {<<" ">>, <<"a">>}

Events == [tStartMs : EventStarts, dDurationMs : EventDurations,
           tEndMs : EventEnds, text : EventTexts]

TimelineInit ==
    /\ data \in SeqsUpTo(Events, MaxEvents)
    /\ kept = <<>> /\ rawSegments = <<>> /\ segments = <<>> /\ tPc = "start"
    /\ NormIdle /\ MatchIdle /\ RunIdle /\ MoreIdle

\* Lines 76-96: the first loop.
ParseEvents ==
    /\ tPc = "start"
    /\ kept' = KeptEvents(data)
    /\ rawSegments' = BuildSegments(data)
    /\ tPc' = "built"
    /\ UNCHANGED <<data, segments, normVars, matchVars, runVars, moreVars>>

\* Lines 98-106: the forward pass and the return.
ReturnSegments ==
    /\ tPc = "built"
    /\ segments' = ClampTimeline(rawSegments)
    /\ tPc' = "returned"
    /\ UNCHANGED <<data, kept, rawSegments, normVars, matchVars, runVars, moreVars>>

TimelineNext == ParseEvents \/ ReturnSegments

SpecTimeline == TimelineInit /\ [][TimelineNext]_vars

---------------------------------------------------------------------------
(* The Match Locator on every sequence of up to MaxSegments segments.      *)

LongText == <<"a", "b", "c", "c", "c", "c", "c", "c", "c", "c", "c", "c">>
SegmentTexts == {<<"a">>, <<"x", "b">>, <<"a", "b">>, <<"a", "x", "b">>,
                 <<",">>, LongText}
Queries == {<<"a", "b">>, <<"A", ",", "B">>, <<",">>, <<"a", " ", "x", "b">>}

\* Segment i of a timeline of n texts: two seconds each, back to back.
TimedSegments(texts) ==
    [i \in 1..Len(texts) |->
        [text |-> texts[i], start |-> (i - 1) * 2000, end |-> i * 2000]]

MatchInit ==
    /\ \E texts \in SeqsUpTo(SegmentTexts, MaxSegments) :
           mSegments = TimedSegments(texts)
    /\ mQuery \in Queries
    /\ mMaxWindow \in 0..MaxWindow
    /\ mResult = <<>> /\ mPc = "start"
    /\ NormIdle /\ TimelineIdle /\ RunIdle /\ MoreIdle

FindBestMatch ==
    /\ mPc = "start"
    /\ mResult' = find_best_match(mSegments, mQuery, mMaxWindow)
    /\ mPc' = "returned"
    /\ UNCHANGED <<mSegments, mQuery, mMaxWindow, normVars, timelineVars, runVars, moreVars>>

MatchNext == FindBestMatch

SpecMatch == MatchInit /\ [][MatchNext]_vars

---------------------------------------------------------------------------
(* The Caption Slicer on every timeline of up to MaxSlicedSegments         *)
(* segments, as the Timeline Builder's forward pass leaves it.             *)

SlicedStarts == {0, 3000, 7000}
SlicedEnds == {3000, 7000, 20000}
SlicedSegments == [text : {<<"a">>}, start : SlicedStarts, end : SlicedEnds]
\* clip windows with clip_end > clip_start, as download_clip lets pass
ClipWindows == {w \in [start : {0, 5000}, end : {5000, 15000}] : w.end > w.start}

SlicerInit ==
    /\ \E raw \in SeqsUpTo(SlicedSegments, MaxSlicedSegments) :
           sSegments = ClampTimeline(raw)
    /\ sClip \in ClipWindows
    /\ sEntries = <<>> /\ sPc = "start"
    /\ NormIdle /\ TimelineIdle /\ MatchIdle /\ RunIdle /\ ScratchIdle
    /\ LaterIdle

\* Lines 285-313
SliceCaptions ==
    /\ sPc = "start"
    /\ sEntries' = SlicedEntries(sSegments, sClip.start, sClip.end)
    /\ sPc' = "returned"
    /\ UNCHANGED <<sSegments, sClip, normVars, timelineVars, matchVars, runVars,
                   scratchVars, laterVars>>

SlicerNext == SliceCaptions

SpecSlicer == SlicerInit /\ [][SlicerNext]_vars

---------------------------------------------------------------------------
(* The lines of the caption file, src/clipper.py:62-68 and 303-307.  The   *)
(* paddings are floats, so an entry time need not be a whole number of     *)
(* milliseconds: here a time is a whole number of ticks, ten to the        *)
(* millisecond.                                                            *)

TicksPerMs == 10
TicksPerSecond == 1000 * TicksPerMs

DigitChars == <<"0", "1", "2", "3", "4", "5", "6", "7", "8", "9">>

\* The decimal digits of a natural number.
RECURSIVE Digits(_)
Digits(n) ==
    IF n < 10 THEN <<DigitChars[n + 1]>>
    ELSE Digits(n \div 10) \o <<DigitChars[(n % 10) + 1]>>

\* The format {n:0<width>d}: zeros to the left up to the width, and every
\* digit of a number that is wider.
RECURSIVE ZeroPad(_, _)
ZeroPad(digits, width) ==
    IF Len(digits) >= width THEN digits
    ELSE ZeroPad(<<"0">> \o digits, width)

\* round() of a number of ticks to milliseconds (to the even one when the
\* two are equally near).
RoundToMs(ticks) ==
    LET q == ticks \div TicksPerMs
        r == ticks % TicksPerMs
    IN  IF 2 * r < TicksPerMs THEN q
        ELSE IF 2 * r > TicksPerMs THEN q + 1
        ELSE IF q % 2 = 0 THEN q ELSE q + 1

\* Lines 62-68
format_srt_timestamp(seconds) ==
    LET t == Max(0, seconds)
        hours == t \div (3600 * TicksPerSecond)
        minutes == (t % (3600 * TicksPerSecond)) \div (60 * TicksPerSecond)
        secs == (t % (60 * TicksPerSecond)) \div TicksPerSecond
        millis == RoundToMs(t % TicksPerSecond)
    IN  ZeroPad(Digits(hours), 2) \o <<":">> \o ZeroPad(Digits(minutes), 2)
            \o <<":">> \o ZeroPad(Digits(secs), 2) \o <<",">>
            \o ZeroPad(Digits(millis), 3)

Arrow == <<" ", "-", "-", ">", " ">>

\* Lines 303-304: the index line and the timing line of entry number counter.
EntryLines(counter, entry) ==
    [index |-> Digits(counter),
     timing |-> format_srt_timestamp(entry.start) \o Arrow
                    \o format_srt_timestamp(entry.end)]

\* Entry times, in ticks: 0 s, 0.9994 s, 1.9996 s, 59.9996 s, 1 h 1.5 s
SrtTimes == {0, 9994, 19996, 599996, 36015000}
SrtEntries == {e \in [start : SrtTimes, end : SrtTimes] : e.start < e.end}

SrtInit ==
    /\ fEntries \in SeqsUpTo(SrtEntries, MaxSrtEntries)
    /\ fLines = <<>> /\ fPc = "start"
    /\ NormIdle /\ TimelineIdle /\ MatchIdle /\ RunIdle /\ SlicerIdle
    /\ ScratchIdle /\ GuiIdle

\* Lines 293-307: the lines of the entries, numbered by counter.
WriteLines ==
    /\ fPc = "start"
    /\ fLines' = [k \in 1..Len(fEntries) |-> EntryLines(k, fEntries[k])]
    /\ fPc' = "written"
    /\ UNCHANGED <<fEntries, normVars, timelineVars, matchVars, runVars,
                   slicerVars, scratchVars, guiVars>>

SrtNext == WriteLines

SpecSrt == SrtInit /\ [][SrtNext]_vars

---------------------------------------------------------------------------
(* Invocations of fetch_transcript_segments, src/clipper.py:139-172, that  *)
(* run at the same time in one working directory and so share the scratch  *)
(* directory .clipper_tmp.                                                 *)

Invocations == {1, 2}
\* The video ids; line 143 names the payload of a video <id>.<ext>.
VideoIds == {"v1", "v2"}

\* The *.json3 files in the directory.
FilesIn(dir) == {f \in VideoIds : dir[f] # <<>>}

\* A faulty listing: the files sorted by modification time, oldest first.
SortedByMtime_oldest_first(dir) ==
    LET present == FilesIn(dir)
        n == Cardinality(present)
        name == CHOOSE s \in [1..n -> present] :
                    \A j, k \in 1..n :
                        j < k => dir[s[j]][1].mtime < dir[s[k]][1].mtime
    IN  [j \in 1..n |-> [name |-> name[j], owner |-> dir[name[j]][1].owner,
                          mtime |-> dir[name[j]][1].mtime]]

\* Line 157: the files sorted by modification time, newest first (each with
\* who wrote it and when, as the listing found it).
SortedByMtime(dir) ==
    LET present == FilesIn(dir)
        n == Cardinality(present)
        name == CHOOSE s \in [1..n -> present] :
                    \A j, k \in 1..n :
                        j < k => dir[s[j]][1].mtime > dir[s[k]][1].mtime
    IN  [j \in 1..n |-> [name |-> name[j], owner |-> dir[name[j]][1].owner,
                          mtime |-> dir[name[j]][1].mtime]]

ScratchInit ==
    /\ cDir = [f \in VideoIds |-> <<>>]
    /\ cClock = 0
    /\ cVideo \in [Invocations -> VideoIds]
    /\ cPc = [i \in Invocations |-> "download"]
    /\ cStaged = [i \in Invocations |-> FALSE]
    /\ cListed = [i \in Invocations |-> <<>>]
    /\ cParsed = [i \in Invocations |-> <<>>]
    /\ NormIdle /\ TimelineIdle /\ MatchIdle /\ RunIdle /\ SlicerIdle
    /\ LaterIdle

\* Lines 143-155: the download stages the payload of the video (or finds no
\* captions and stages nothing, or raises).
StagePayload(i) ==
    /\ cPc[i] = "download"
    /\ \E outcome \in {"staged", "nothing", "raised"} :
           CASE outcome = "staged" ->
                    /\ cClock' = cClock + 1
                    /\ cDir' = [cDir EXCEPT ![cVideo[i]] =
                                    <<[owner |-> i, mtime |-> cClock + 1]>>]
                    /\ cStaged' = [cStaged EXCEPT ![i] = TRUE]
                    /\ cPc' = [cPc EXCEPT ![i] = "list"]
             [] outcome = "nothing" ->
                    /\ cPc' = [cPc EXCEPT ![i] = "list"]
                    /\ UNCHANGED <<cClock, cDir, cStaged>>
             [] outcome = "raised" ->
                    /\ cPc' = [cPc EXCEPT ![i] = "raised"]
                    /\ UNCHANGED <<cClock, cDir, cStaged>>
    /\ UNCHANGED <<cVideo, cListed, cParsed, normVars, timelineVars, matchVars,
                   runVars, slicerVars, laterVars>>

\* Lines 157-159: the listing; no file at all raises.
ListPayloads(i) ==
    /\ cPc[i] = "list"
    /\ LET json_files == SortedByMtime(cDir)
       IN  /\ cListed' = [cListed EXCEPT ![i] = json_files]
           /\ cPc' = [cPc EXCEPT ![i] = IF json_files = <<>> THEN "raised"
                                         ELSE "read"]
    /\ UNCHANGED <<cDir, cClock, cVideo, cStaged, cParsed, normVars,
                   timelineVars, matchVars, runVars, slicerVars, laterVars>>

\* Lines 161-163: the newest listed file is read, as it is now (reading a
\* file that is gone raises, after the clean-up).
ReadLatest(i) ==
    /\ cPc[i] = "read"
    /\ LET latest == cListed[i][1].name
       IN  cParsed' = [cParsed EXCEPT ![i] =
                          IF cDir[latest] = <<>> THEN <<>>
                          ELSE <<[name |-> latest, owner |-> cDir[latest][1].owner,
                                  mtime |-> cDir[latest][1].mtime]>>]
    /\ cPc' = [cPc EXCEPT ![i] = "cleanup"]
    /\ UNCHANGED <<cDir, cClock, cVideo, cStaged, cListed, normVars,
                   timelineVars, matchVars, runVars, slicerVars, laterVars>>

\* Lines 164-170: every listed file is removed (one that is already gone is
\* passed over).
CleanUp(i) ==
    /\ cPc[i] = "cleanup"
    /\ cDir' = [f \in VideoIds |->
                   IF \E k \in 1..Len(cListed[i]) : cListed[i][k].name = f
                   THEN <<>> ELSE cDir[f]]
    /\ cPc' = [cPc EXCEPT ![i] = IF cParsed[i] = <<>> THEN "raised"
                                  ELSE "returned"]
    /\ UNCHANGED <<cClock, cVideo, cStaged, cListed, cParsed, normVars,
                   timelineVars, matchVars, runVars, slicerVars, laterVars>>

ScratchNext ==
    \E i \in Invocations :
        StagePayload(i) \/ ListPayloads(i) \/ ReadLatest(i) \/ CleanUp(i)

SpecScratch == ScratchInit /\ [][ScratchNext]_vars

---------------------------------------------------------------------------
(* Invocations of fetch_transcript_segments that run one after another in  *)
(* one working directory; an invocation may be terminated between two of   *)
(* its steps.                                                              *)

\* The invocation has ended: it returned, raised or was terminated.
Ended(i) == cPc[i] \in {"returned", "raised", "killed"}

\* The process is terminated after its download, before its clean-up ran.
Terminate(i) ==
    /\ cPc[i] \in {"list", "read", "cleanup"}
    /\ cPc' = [cPc EXCEPT ![i] = "killed"]
    /\ UNCHANGED <<cDir, cClock, cVideo, cStaged, cListed, cParsed, normVars,
                   timelineVars, matchVars, runVars, slicerVars, laterVars>>

\* Every earlier invocation has ended.
Turn(i) == \A j \in Invocations : j < i => Ended(j)

SequentialNext ==
    \E i \in Invocations :
        \/ Turn(i) /\ StagePayload(i)
        \/ Turn(i) /\ ListPayloads(i)
        \/ Turn(i) /\ ReadLatest(i)
        \/ Turn(i) /\ CleanUp(i)
        \/ Turn(i) /\ Terminate(i)

SpecSequential == ScratchInit /\ [][SequentialNext]_vars

---------------------------------------------------------------------------
(* The title preview of the GUI, src/clipper_gui.py:229-270: the handlers  *)
(* run one at a time in the main loop, the lookups in worker threads.      *)

\* The URLs typed into the field; <<>> is the empty field.
Urls == {"u1", "u2"}

Prompt == [text |-> "prompt", url |-> <<>>]
Fetching == [text |-> "fetching", url |-> <<>>]
\* The message of the lookup made for a url (its title, or why it failed).
TitleOf(url) == [text |-> "result", url |-> <<url>>]

\* what the title preview leaves alone
notTitleVars == <<normVars, timelineVars, matchVars, runVars, slicerVars,
                  scratchVars, srtVars, procVars>>

TitleInit ==
    /\ url_var = <<>>
    /\ title_fetch_after_id = <<>>
    /\ title_request_counter = 0
    /\ title_workers = {}
    /\ title_results = <<>>
    /\ video_title_var = Prompt
    /\ NormIdle /\ TimelineIdle /\ MatchIdle /\ RunIdle /\ SlicerIdle
    /\ ScratchIdle /\ SrtIdle /\ ProcIdle

\* Lines 229-240: _on_url_changed, after the field was set to url.
OnUrlChanged(url) ==
    /\ url_var' = url
    /\ IF url = <<>>
       THEN /\ title_request_counter < MaxTitleRequests
            /\ video_title_var' = Prompt
            /\ title_request_counter' = title_request_counter + 1
            /\ title_fetch_after_id' = <<>>
       ELSE /\ video_title_var' = Fetching
            /\ title_fetch_after_id' = url
            /\ UNCHANGED title_request_counter
    /\ UNCHANGED <<title_workers, title_results, notTitleVars>>

\* Lines 242-246: _start_title_lookup, when the 600 ms timer fires.
StartTitleLookup ==
    /\ title_fetch_after_id # <<>>
    /\ title_request_counter < MaxTitleRequests
    /\ title_fetch_after_id' = <<>>
    /\ title_request_counter' = title_request_counter + 1
    /\ title_workers' = title_workers \cup
           {[url |-> title_fetch_after_id[1],
             job_id |-> title_request_counter + 1]}
    /\ UNCHANGED <<url_var, title_results, video_title_var, notTitleVars>>

\* Lines 248-265: _fetch_title_worker ends and posts its result.
FetchTitleWorker(w) ==
    /\ w \in title_workers
    /\ title_workers' = title_workers \ {w}
    /\ title_results' = Append(title_results, w)
    /\ UNCHANGED <<url_var, title_fetch_after_id, title_request_counter,
                   video_title_var, notTitleVars>>

\* Lines 267-270: _apply_title_result, for the first result posted.
ApplyTitleResult ==
    /\ title_results # <<>>
    /\ LET result == Head(title_results)
       IN  video_title_var' =
               IF result.job_id # title_request_counter THEN video_title_var
               ELSE TitleOf(result.url)
    /\ title_results' = Tail(title_results)
    /\ UNCHANGED <<url_var, title_fetch_after_id, title_request_counter,
                   title_workers, notTitleVars>>

TitleNext ==
    \/ \E url \in {<<>>} \cup {<<u>> : u \in Urls} : OnUrlChanged(url)
    \/ StartTitleLookup
    \/ \E w \in title_workers : FetchTitleWorker(w)
    \/ ApplyTitleResult

SpecTitle == TitleInit /\ [][TitleNext]_vars

---------------------------------------------------------------------------
(* The child process of the GUI, src/clipper_gui.py:338-404.  The handlers *)
(* run one at a time in the main loop; a child ends on its own or after    *)
(* Stop, and its reader thread then posts the finished callback.           *)

\* what the supervision of the child leaves alone
notProcVars == <<normVars, timelineVars, matchVars, runVars, slicerVars,
                 scratchVars, srtVars, titleVars>>

\* The return codes of a child: success, failure, killed by SIGTERM.
ReturnCodes(child) == {0, 1} \cup (IF child \in terminated THEN {-15} ELSE {})

ProcInit ==
    /\ process = <<>>
    /\ run_button = TRUE
    /\ stop_button = FALSE
    /\ children = {}
    /\ streamed = 0
    /\ after_queue = <<>>
    /\ spawned = 0
    /\ terminated = {}
    /\ dialog = "none"
    /\ NormIdle /\ TimelineIdle /\ MatchIdle /\ RunIdle /\ SlicerIdle
    /\ ScratchIdle /\ SrtIdle /\ TitleIdle

\* Lines 338-377: _run_clipper.  It returns at once when a process is
\* tracked, when the inputs are invalid or the script is missing; the launch
\* itself succeeds or raises OSError.
RunClipper ==
    /\ spawned < MaxSpawns
    /\ IF process # <<>>
       THEN /\ dialog' = "already running"
            /\ UNCHANGED <<process, run_button, stop_button, children,
                           streamed, spawned>>
       ELSE \E outcome \in {"rejected", "failed", "launched"} :
                CASE outcome = "rejected" ->
                         /\ dialog' = "invalid input"
                         /\ UNCHANGED <<process, run_button, stop_button,
                                        children, streamed, spawned>>
                  [] outcome = "failed" ->
                         /\ process' = <<>>
                         /\ run_button' = TRUE
                         /\ stop_button' = FALSE
                         /\ dialog' = "failed to start"
                         /\ UNCHANGED <<children, streamed, spawned>>
                  [] outcome = "launched" ->
                         /\ process' = <<spawned + 1>>
                         /\ run_button' = FALSE
                         /\ stop_button' = TRUE
                         /\ children' = children \cup {spawned + 1}
                         /\ streamed' = 0
                         /\ spawned' = spawned + 1
                         /\ UNCHANGED dialog
    /\ UNCHANGED <<after_queue, terminated, notProcVars>>

\* A faulty _stop_process: it forgets the process it terminates and gives
\* the buttons back before the child has ended.
StopProcess_forgets ==
    /\ IF process = <<>>
       THEN UNCHANGED <<terminated, process, run_button, stop_button>>
       ELSE /\ terminated' = terminated \cup {process[1]}
            /\ process' = <<>>
            /\ run_button' = TRUE
            /\ stop_button' = FALSE
    /\ UNCHANGED <<children, streamed, after_queue, spawned, dialog,
                   notProcVars>>

\* Lines 400-404: _stop_process
StopProcess ==
    /\ terminated' = IF process = <<>> THEN terminated
                     ELSE terminated \cup {process[1]}
    /\ UNCHANGED <<process, run_button, stop_button, children, streamed,
                   after_queue, spawned, dialog, notProcVars>>

\* Lines 381-383: the reader thread posts a line of the child's output.
StreamLine(child) ==
    /\ child \in children
    /\ streamed < MaxLines
    /\ streamed' = streamed + 1
    /\ after_queue' = Append(after_queue,
                             [kind |-> "output", child |-> child, code |-> 0])
    /\ UNCHANGED <<process, run_button, stop_button, children, spawned,
                   terminated, dialog, notProcVars>>

\* Lines 384-388: the child has ended, and the reader thread posts the
\* finished callback with its return code.
StreamOutput(child) ==
    /\ child \in children
    /\ children' = children \ {child}
    /\ \E code \in ReturnCodes(child) :
           after_queue' = Append(after_queue,
                                 [kind |-> "finished", child |-> child,
                                  code |-> code])
    /\ UNCHANGED <<process, run_button, stop_button, streamed, spawned,
                   terminated, dialog, notProcVars>>

\* Lines 281-285: _append_output, for a line posted first in the queue.
AppendOutput ==
    /\ after_queue # <<>>
    /\ Head(after_queue).kind = "output"
    /\ after_queue' = Tail(after_queue)
    /\ UNCHANGED <<process, run_button, stop_button, children, streamed,
                   spawned, terminated, dialog, notProcVars>>

\* Lines 390-398: _on_process_finished, for a callback posted first in the
\* queue.
OnProcessFinished ==
    /\ after_queue # <<>>
    /\ Head(after_queue).kind = "finished"
    /\ after_queue' = Tail(after_queue)
    /\ process' = <<>>
    /\ run_button' = TRUE
    /\ stop_button' = FALSE
    /\ dialog' = IF Head(after_queue).code = 0 THEN "created" ELSE "exited"
    /\ UNCHANGED <<children, streamed, spawned, terminated, notProcVars>>

ProcNext ==
    \/ RunClipper
    \/ StopProcess
    \/ \E child \in children : StreamLine(child)
    \/ \E child \in children : StreamOutput(child)
    \/ AppendOutput
    \/ OnProcessFinished

SpecProc == ProcInit /\ [][ProcNext]_vars

---------------------------------------------------------------------------
(* A run of main(), src/clipper.py:450-523, with download_clip            *)
(* (175-276) and trim_with_ffmpeg (316-360) step by step.  The fetch       *)
(* service, the probe and the trim utility answer as they please.          *)

pureVars == <<normVars, timelineVars, matchVars, moreVars>>

Event(start, duration, text) ==
    [tStartMs |-> start, dDurationMs |-> duration, tEndMs |-> Absent, text |-> text]

Payloads ==
    { <<>>,
      <<Event(Some(0), Some(2000), <<"a", "b">>),
        Event(Some(2000), Some(2000), <<"x", "b">>)>>,
      <<Event(Some(1000), Absent, <<"a", "b">>)>>,
      <<Event(Some(0), Some(10000), <<"a", "b">>)>> }
RunQueries == {<<"a", "b">>, <<"x", "b">>, <<",">>}
PaddingsBeforeMs == {0, 1000}
PaddingsAfterMs == {0, 10000}
RunMaxWindows == {0, 2}

\* What probe_duration may measure, in milliseconds.
ProbeDurationsMs ==
    {0, 999, 1000, 2000, 2001, 3000, 3001, 4001, 8999, 9000, 10800, 10900,
     11000, 11001, 11200, 12100, 12101, 13200, 13201, 14301, 17999, 18000,
     22000, 22001}

Paths == {"output", "produced", "full", "tmp", "srt"}

\* Lines 193-195, 211: the service writes <base>.<target_ext>, which is the
\* output path itself when that path has a suffix.
ProducedPath == IF args.output_has_suffix THEN "output" ELSE "produced"

\* What the trim utility makes of a file.
TrimOf(content) ==
    CASE content = "whole" -> "trimmed_whole"
      [] content = "cut" -> "trimmed_cut"
      [] OTHER -> "trimmed_other"

\* The requests of download_clip, in the order of lines 244-276.
Tiers == {"precise", "coarse", "full"}

Init ==
    /\ args \in [query : RunQueries, before : PaddingsBeforeMs,
                  after : PaddingsAfterMs, max_window : RunMaxWindows,
                  output_has_suffix : BOOLEAN]
    /\ payload \in Payloads
    /\ pc = "fetch"
    /\ runSegments = <<>> /\ match = <<>> /\ clip = <<>>
    /\ requests = <<>> /\ probes = <<>> /\ download_result = <<>>
    /\ trims = <<>> /\ final_path = <<>> /\ captions = <<>>
    /\ \E before_run \in [{"output", "srt"} -> {"absent", "old"}] :
           fs = [p \in Paths |-> IF p \in DOMAIN before_run THEN before_run[p]
                                 ELSE "absent"]
    /\ fs_before = fs
    /\ exit_status = <<>> /\ error = "none"
    /\ service \in [Tiers -> BOOLEAN]
    /\ download_call = <<>>
    /\ NormIdle /\ TimelineIdle /\ MatchIdle /\ MoreIdle

\* A faulty main: a run without a match returns the status of a failed fetch.
Exits_one_failure_status(status, what) ==
    /\ pc' = "exit"
    /\ exit_status' = <<IF status = 2 THEN 1 ELSE status>>
    /\ error' = what

\* return <status>, after <what> raised
Exits(status, what) ==
    /\ pc' = "exit"
    /\ exit_status' = <<status>>
    /\ error' = what

\* Lines 452-457
FetchTranscript ==
    /\ pc = "fetch"
    /\ \E fetched \in BOOLEAN :
           IF fetched
           THEN /\ runSegments' = read_segments_from_json3(payload)
                /\ pc' = "match"
                /\ UNCHANGED <<exit_status, error>>
           ELSE /\ Exits(1, "transcript")
                /\ UNCHANGED runSegments
    /\ UNCHANGED <<service, download_call, fs_before>>
    /\ UNCHANGED <<args, payload, match, clip, requests, probes, download_result,
                   trims, final_path, captions, fs, pureVars>>

\* A faulty window: the start is not floored at zero.
ClipWindow_unfloored(m, before, after) ==
    [start |-> m.start - before, end |-> m.end + after]

\* Lines 465-466: clip_start and clip_end
ClipWindow(m, before, after) ==
    [start |-> Max(0, m.start - before), end |-> m.end + after]

\* Lines 460-466
FindMatch ==
    /\ pc = "match"
    /\ LET m == find_best_match(runSegments, args.query, args.max_window)
       IN  /\ match' = m
           /\ IF m = <<>>
              THEN /\ Exits(2, "no_match")
                   /\ UNCHANGED clip
              ELSE /\ clip' = <<ClipWindow(m[1], args.before, args.after)>>
                   /\ pc' = "download"
                   /\ UNCHANGED <<exit_status, error>>
    /\ UNCHANGED <<service, download_call, fs_before>>
    /\ UNCHANGED <<args, payload, runSegments, requests, probes, download_result,
                   trims, final_path, captions, fs, pureVars>>

\* A faulty download_clip: the window is not checked before the requests.
BeginDownload_unchecked ==
    /\ pc = "download"
    /\ \E unlinked \in BOOLEAN :
           fs' = IF unlinked THEN [fs EXCEPT !["output"] = "absent"] ELSE fs
    /\ pc' = "tier1"
    /\ download_call' = <<[start |-> clip[1].start, end |-> clip[1].end]>>
    /\ UNCHANGED <<fs_before, args, payload, service, runSegments, match, clip, requests,
                   probes, download_result, trims, final_path, captions,
                   exit_status, error, pureVars>>

\* Lines 476-483 and 183-191: download_clip called with the clip window; the
\* window check, and the old output removed (an OSError of unlink is passed
\* over).
BeginDownload ==
    /\ pc = "download"
    /\ IF clip[1].end <= clip[1].start
       THEN /\ Exits(3, "window")
            /\ UNCHANGED fs
       ELSE /\ \E unlinked \in BOOLEAN :
                   fs' = IF unlinked THEN [fs EXCEPT !["output"] = "absent"] ELSE fs
            /\ pc' = "tier1"
            /\ UNCHANGED <<exit_status, error>>
    /\ download_call' = <<[start |-> clip[1].start, end |-> clip[1].end]>>
    /\ UNCHANGED <<fs_before, args, payload, service, runSegments, match, clip, requests,
                   probes, download_result, trims, final_path, captions,
                   pureVars>>

\* Lines 219-225 and 244-276: one request to the fetch service, which
\* fulfils it or raises.
Attempt(tier, path, content) ==
    \E ok \in {service[tier]} :
        /\ requests' = Append(requests, [tier |-> tier, ok |-> ok])
        /\ fs' = IF ok THEN [fs EXCEPT ![path] = content] ELSE fs
        /\ LET next == AfterAttempt(tier, ok)
           IN  /\ IF next = "raise"
                  THEN Exits(3, tier)
                  ELSE pc' = next /\ UNCHANGED <<exit_status, error>>
               /\ download_result' =
                      IF next = "returned" THEN <<FullDownloadResult>>
                      ELSE download_result
        /\ UNCHANGED <<service, download_call, fs_before>>
        /\ UNCHANGED <<args, payload, runSegments, match, clip, probes, trims,
                       final_path, captions, pureVars>>

\* Lines 244-258: download_ranges
AttemptPrecise == pc = "tier1" /\ Attempt("precise", ProducedPath, "cut")

\* Lines 260-269: download_sections
AttemptCoarse == pc = "tier2" /\ Attempt("coarse", ProducedPath, "cut")

\* Lines 271-276: the full video
AttemptFull == pc = "tier3" /\ Attempt("full", "full", "whole")

\* A faulty finalize_partial: it returns the output path without renaming
\* the file the service produced.
FinalizePartial_no_rename ==
    /\ pc = "finalize"
    /\ pc' = "assess"
    /\ UNCHANGED <<service, download_call, fs_before>>
    /\ UNCHANGED <<args, payload, runSegments, match, clip, requests, probes,
                   download_result, trims, final_path, captions, fs,
                   exit_status, error, pureVars>>

\* Lines 210-217: finalize_partial
FinalizePartial ==
    /\ pc = "finalize"
    /\ IF ProducedPath = "output"
       THEN /\ pc' = "assess"
            /\ UNCHANGED <<fs, exit_status, error>>
       ELSE \E renamed \in BOOLEAN :
                IF renamed
                THEN /\ fs' = [fs EXCEPT !["output"] = fs["produced"],
                                         !["produced"] = "absent"]
                     /\ pc' = "assess"
                     /\ UNCHANGED <<exit_status, error>>
                ELSE /\ Exits(3, "rename")
                     /\ UNCHANGED fs
    /\ UNCHANGED <<service, download_call, fs_before>>
    /\ UNCHANGED <<args, payload, runSegments, match, clip, requests, probes,
                   download_result, trims, final_path, captions, pureVars>>

\* Lines 227-242 (and 363-390): the probe and assess_download's answer.
AssessDownload ==
    /\ pc = "assess"
    /\ \E probed \in {<<>>} \cup {<<d>> : d \in ProbeDurationsMs} :
           /\ probes' = Append(probes, probed)
           /\ download_result' =
                  <<assess_download("output", probed,
                                    RequestedDuration(clip[1].start, clip[1].end))>>
    /\ pc' = "returned"
    /\ UNCHANGED <<service, download_call, fs_before>>
    /\ UNCHANGED <<args, payload, runSegments, match, clip, requests, trims,
                   final_path, captions, fs, exit_status, error, pureVars>>

\* Lines 484-485: a partial download is the final clip.
AcceptDownload ==
    /\ pc = "returned"
    /\ download_result[1].partial
    /\ final_path' = <<download_result[1].path>>
    /\ pc' = "subtitles"
    /\ UNCHANGED <<service, download_call, fs_before>>
    /\ UNCHANGED <<args, payload, runSegments, match, clip, requests, probes,
                   download_result, trims, captions, fs, exit_status, error,
                   pureVars>>

\* Lines 486-494 and 323-351: the trim utility writes the temporary file.
TrimFfmpeg ==
    /\ pc = "returned"
    /\ ~download_result[1].partial
    /\ trims' = Append(trims, [source |-> download_result[1].path,
                               start |-> clip[1].start, end |-> clip[1].end])
    /\ \E outcome \in {"ok", "missing", "failed"} :
           CASE outcome = "ok" ->
                    /\ fs' = [fs EXCEPT !["tmp"] = TrimOf(fs[download_result[1].path])]
                    /\ pc' = "replace"
                    /\ UNCHANGED <<exit_status, error>>
             [] outcome = "missing" ->
                    /\ Exits(3, "trim")
                    /\ UNCHANGED fs
             [] outcome = "failed" ->
                    /\ Exits(3, "trim")
                    /\ fs' = [fs EXCEPT !["tmp"] = "partial"]
    /\ UNCHANGED <<service, download_call, fs_before>>
    /\ UNCHANGED <<args, payload, runSegments, match, clip, requests, probes,
                   download_result, final_path, captions, pureVars>>

\* A faulty trim: a failure to put the trimmed file in place is passed over
\* and the run goes on to the captions.
TrimReplace_ignores_failure ==
    /\ pc = "replace"
    /\ \E outcome \in {"ok", "rename_failed"} :
           fs' = IF outcome = "ok"
                 THEN [fs EXCEPT !["output"] = fs["tmp"], !["tmp"] = "absent"]
                 ELSE [fs EXCEPT !["output"] = "absent"]
    /\ final_path' = <<"output">>
    /\ pc' = "cleanup"
    /\ UNCHANGED <<service, download_call, fs_before>>
    /\ UNCHANGED <<args, payload, runSegments, match, clip, requests, probes,
                   download_result, trims, captions, exit_status, error,
                   pureVars>>

\* Lines 353-360: the output removed, the temporary file renamed to it.
TrimReplace ==
    /\ pc = "replace"
    /\ \E outcome \in {"ok", "unlink_failed", "rename_failed"} :
           CASE outcome = "ok" ->
                    /\ fs' = [fs EXCEPT !["output"] = fs["tmp"], !["tmp"] = "absent"]
                    /\ final_path' = <<"output">>
                    /\ pc' = "cleanup"
                    /\ UNCHANGED <<exit_status, error>>
             [] outcome = "unlink_failed" ->
                    /\ Exits(3, "finalize")
                    /\ UNCHANGED <<fs, final_path>>
             [] outcome = "rename_failed" ->
                    /\ Exits(3, "finalize")
                    /\ fs' = [fs EXCEPT !["output"] = "absent"]
                    /\ UNCHANGED final_path
    /\ UNCHANGED <<service, download_call, fs_before>>
    /\ UNCHANGED <<args, payload, runSegments, match, clip, requests, probes,
                   download_result, trims, captions, pureVars>>

\* Lines 495-502: the downloaded source removed (an OSError is passed over).
RemoveSource ==
    /\ pc = "cleanup"
    /\ LET source == download_result[1].path
       IN  IF source # final_path[1] /\ fs[source] # "absent"
           THEN \E removed \in BOOLEAN :
                    fs' = IF removed THEN [fs EXCEPT ![source] = "absent"] ELSE fs
           ELSE UNCHANGED fs
    /\ pc' = "subtitles"
    /\ UNCHANGED <<service, download_call, fs_before>>
    /\ UNCHANGED <<args, payload, runSegments, match, clip, requests, probes,
                   download_result, trims, final_path, captions, exit_status,
                   error, pureVars>>

\* A faulty caption step: the file is written even when no entry survives.
WriteSubtitles_writes_empty ==
    /\ pc = "subtitles"
    /\ captions' = <<[start |-> clip[1].start, end |-> clip[1].end,
                      entries |-> SubtitleEntries(runSegments, clip[1].start,
                                                  clip[1].end)]>>
    /\ fs' = [fs EXCEPT !["srt"] = "captions"]
    /\ Exits(0, "none")
    /\ UNCHANGED <<service, download_call, fs_before>>
    /\ UNCHANGED <<args, payload, runSegments, match, clip, requests, probes,
                   download_result, trims, final_path, pureVars>>

\* Lines 503-523: the caption file, and the end of the run.  Writing the
\* file (line 312) may raise.
WriteSubtitles ==
    /\ pc = "subtitles"
    /\ LET entries == SubtitleEntries(runSegments, clip[1].start, clip[1].end)
       IN  \E raised \in {FALSE, entries # <<>>} :
               IF raised
               THEN /\ Exits(3, "subtitle")
                    /\ UNCHANGED <<captions, fs>>
               ELSE /\ captions' = <<[start |-> clip[1].start, end |-> clip[1].end,
                                      entries |-> entries]>>
                    /\ fs' = IF entries # <<>>
                             THEN [fs EXCEPT !["srt"] = "captions"] ELSE fs
                    /\ Exits(0, "none")
    /\ UNCHANGED <<service, download_call, fs_before>>
    /\ UNCHANGED <<args, payload, runSegments, match, clip, requests, probes,
                   download_result, trims, final_path, pureVars>>

Next ==
    \/ FetchTranscript
    \/ FindMatch
    \/ BeginDownload
    \/ AttemptPrecise
    \/ AttemptCoarse
    \/ AttemptFull
    \/ FinalizePartial
    \/ AssessDownload
    \/ AcceptDownload
    \/ TrimFfmpeg
    \/ TrimReplace
    \/ RemoveSource
    \/ WriteSubtitles

Spec == Init /\ [][Next]_vars

---------------------------------------------------------------------------
(* Properties.                                                             *)

Last(seq) == seq[Len(seq)]

\* The run's requested duration, once the clip window is known.
Requested == RequestedDuration(clip[1].start, clip[1].end)

\* The probe was called after a range request and could not tell a duration.
ProbeFailed == probes # <<>> /\ Last(probes) = <<>> /\ download_result # <<>>

\* C1, as the specification states it: after a successful precise-range or
\* coarse-range request, when the duration probe fails the outcome is marked
\* precise (partial = TRUE for main) and the run trims nothing.
C1_ProbeFailureIsPrecise ==
    ProbeFailed => download_result[1].partial /\ trims = <<>>

\* C1, as the code has it: when the duration probe fails the outcome is
\* marked imprecise, and the run reaches a final clip only through the local
\* trim step, applied once to the downloaded file with the clip window.
C1_ProbeFailureIsTrimmed ==
    ProbeFailed =>
        /\ ~download_result[1].partial
        /\ (final_path # <<>> \/ exit_status = <<0>>) =>
               trims = <<[source |-> "output", start |-> clip[1].start,
                          end |-> clip[1].end]>>

C1_Witness ==
    ProbeFailed /\ exit_status = <<0>> /\ Len(trims) = 1

\* C5: the fetch service is asked in the order precise-range, coarse-range,
\* full download, each at most once; a request follows only failed ones,
\* and none follows a request that succeeded.
C5_TiersInOrder ==
    LET order == <<"precise", "coarse", "full">>
    IN  /\ Len(requests) <= 3
        /\ \A i \in 1..Len(requests) :
               /\ requests[i].tier = order[i]
               /\ (i < Len(requests)) => ~requests[i].ok
        /\ (requests # <<>> /\ Last(requests).ok) =>
               pc \notin {"tier1", "tier2", "tier3"}

C5_Witness ==
    /\ Len(requests) = 3
    /\ ~requests[1].ok /\ ~requests[2].ok /\ requests[3].ok

\* The full download was requested and succeeded.
FullDownloaded ==
    requests # <<>> /\ Last(requests).tier = "full" /\ Last(requests).ok

\* C6: the outcome of the full-download fallback is marked imprecise with no
\* duration probed, and the run trims that file with the clip window before
\* any clip is final.
C6_FullDownloadIsTrimmed ==
    FullDownloaded =>
        /\ download_result = <<[path |-> "full", partial |-> FALSE]>>
        /\ probes = <<>>
        /\ (final_path # <<>> \/ exit_status = <<0>>) =>
               trims = <<[source |-> "full", start |-> clip[1].start,
                          end |-> clip[1].end]>>

C6_Witness ==
    FullDownloaded /\ exit_status = <<0>> /\ fs["output"] = "trimmed_whole"

\* C7: after a successful range request whose file has a known duration,
\* with a requested duration above zero, the outcome is precise exactly when
\* |actual - requested| <= max(1 s, requested / 10); 10.0 s requested makes
\* 10.9 s precise and 11.2 s imprecise.
C7_PreciseIffWithinTolerance ==
    (probes # <<>> /\ Last(probes) # <<>> /\ download_result # <<>>
        /\ Requested > 0) =>
        LET actual == Last(probes)[1]
            tenfold == IF Requested >= 10000 THEN Requested ELSE 10000
        IN  /\ download_result[1].partial <=> (10 * Abs(actual - Requested) <= tenfold)
            /\ (Requested = 10000 /\ actual = 10900) => download_result[1].partial
            /\ (Requested = 10000 /\ actual = 11200) => ~download_result[1].partial

C7_Witness ==
    /\ probes = << <<10900>> >> /\ download_result # <<>>
    /\ Requested = 10000 /\ download_result[1].partial

\* Both range requests failed, the full download and the trim succeeded.
FellThroughToTrim ==
    /\ Len(requests) = 3
    /\ ~requests[1].ok /\ ~requests[2].ok /\ requests[3].ok
    /\ final_path = <<"output">>

\* A failed range request leaves download_clip at the next tier, and is
\* never the error the run ends with.
RangeFailuresFallThrough ==
    /\ (requests # <<>> /\ Last(requests) = [tier |-> "precise", ok |-> FALSE])
           => pc = "tier2"
    /\ (requests # <<>> /\ Last(requests) = [tier |-> "coarse", ok |-> FALSE])
           => pc = "tier3"
    /\ error \notin {"precise", "coarse"}

C2_TimelineIncreasing ==
    tPc = "returned" =>
        \A i \in 1..Len(segments) :
            /\ segments[i].end > segments[i].start
            /\ (i > 1) => segments[i].start >= segments[i - 1].end

\* C9: before the forward pass, the end of every kept event is tStartMs +
\* dDurationMs when dDurationMs is present, else tEndMs when tEndMs is
\* present, else tStartMs + 1000 ms.
C9_EndFromDurationElseEndElseDefault ==
    tPc \in {"built", "returned"} =>
        \A j \in 1..Len(kept) :
            LET event == data[kept[j]]
                start_ms == Value(event.tStartMs)
            IN  rawSegments[j].end =
                    IF IsPresent(event.dDurationMs)
                    THEN start_ms + Value(event.dDurationMs)
                    ELSE IF IsPresent(event.tEndMs)
                         THEN Value(event.tEndMs)
                         ELSE start_ms + 1000

\* C3: normalize is idempotent, normalize(normalize(x)) = normalize(x).
C3_NormalizeIdempotent ==
    nPc = "twice" => nTwice = nOnce

\* The candidate windows of the call: <<width, start index>>, the window
\* fitting the sequence and its normalized text not empty.
WindowText(c) == normalize(JoinTexts(mSegments, c[2], c[1]))
Candidates ==
    {c \in (1..mMaxWindow) \X (0..Len(mSegments)) :
        c[2] + c[1] <= Len(mSegments) /\ WindowText(c) # <<>>}
CandidateScore(c) == WindowScore(normalize(mQuery), WindowText(c))
ContainsQuery(c) == IsSubstring(normalize(mQuery), WindowText(c))
Returned == <<mResult[1].segment_count, mResult[1].start_segment_index>>

\* C4: the match returned is a candidate window of the maximum score and,
\* among the candidates of that score, the one of the smallest width and
\* then of the earliest start index.
C4_MaximumScoreSmallestEarliest ==
    (mPc = "returned" /\ normalize(mQuery) # <<>> /\ Candidates # {}) =>
        /\ mResult # <<>>
        /\ Returned \in Candidates
        /\ ScoreEqual(mResult[1].score, CandidateScore(Returned))
        /\ \A c \in Candidates :
               /\ ~ScoreGreater(CandidateScore(c), mResult[1].score)
               /\ ScoreEqual(CandidateScore(c), mResult[1].score) =>
                      \/ Returned[1] < c[1]
                      \/ (Returned[1] = c[1] /\ Returned[2] <= c[2])

\* Two windows of different widths and two of the same width tie at the top.
C4_Witness ==
    /\ mPc = "returned" /\ mResult # <<>>
    /\ \E c \in Candidates :
           c[1] > Returned[1] /\ ScoreEqual(CandidateScore(c), mResult[1].score)

\* Some candidate window holds the normalized query as an exact substring.
QueryInSomeWindow ==
    /\ mPc = "returned" /\ normalize(mQuery) # <<>>
    /\ \E c \in Candidates : ContainsQuery(c)

ReturnedIsBestScoring ==
    mResult # <<>> =>
        /\ Returned \in Candidates
        /\ \A c \in Candidates : ~ScoreGreater(CandidateScore(c), mResult[1].score)

\* C11, as the specification states it: find_best_match returns no match
\* exactly when the segment sequence is empty or the query normalizes to
\* nothing, and the single best-scoring match in every other case.
C11_NoMatchOnlyForEmptyInput ==
    mPc = "returned" =>
        /\ (mResult = <<>>) <=> (mSegments = <<>> \/ normalize(mQuery) = <<>>)
        /\ ReturnedIsBestScoring

\* C11, as the code has it: no match is returned also when there is no
\* candidate window, max_window being below 1 or the text of every window
\* normalizing to nothing.
C11_NoMatchAlsoWithoutCandidates ==
    mPc = "returned" =>
        /\ (mResult = <<>>) <=>
               (mSegments = <<>> \/ normalize(mQuery) = <<>> \/ Candidates = {})
        /\ ReturnedIsBestScoring

C11_Witness ==
    /\ mPc = "returned" /\ mSegments # <<>> /\ normalize(mQuery) # <<>>
    /\ mMaxWindow >= 1 /\ Candidates = {} /\ mResult = <<>>


\* C12: write_subtitle_file emits an entry for a segment only if the segment
\* ends after clip_start and starts before clip_end; the entry's times are
\* max(segment.start, clip_start) - clip_start and min(segment.end, clip_end)
\* - clip_start, so 0 <= start < end <= clip_end - clip_start; the entries
\* are in segment order; window [5, 15) turns segment [3, 7) into [0, 2).
C12_EntriesClippedAndShifted ==
    sPc = "returned" =>
        /\ \A k \in 1..Len(sEntries) :
               LET e == sEntries[k]
                   seg == sSegments[e.segment]
               IN  /\ seg.end > sClip.start /\ seg.start < sClip.end
                   /\ e.start = Max(seg.start, sClip.start) - sClip.start
                   /\ e.end = Min(seg.end, sClip.end) - sClip.start
                   /\ 0 <= e.start /\ e.start < e.end
                   /\ e.end <= sClip.end - sClip.start
                   /\ (k > 1) => sEntries[k - 1].segment < e.segment
        /\ \A i \in 1..Len(sSegments) :
               (sClip = [start |-> 5000, end |-> 15000]
                   /\ sSegments[i].start = 3000 /\ sSegments[i].end = 7000) =>
                   \E k \in 1..Len(sEntries) :
                       /\ sEntries[k].segment = i
                       /\ sEntries[k].start = 0 /\ sEntries[k].end = 2000

C12_Witness ==
    /\ sPc = "returned" /\ sClip = [start |-> 5000, end |-> 15000]
    /\ Len(sEntries) = 2
    /\ sSegments[1].start = 3000 /\ sSegments[1].end = 7000
    /\ sEntries[1].start = 0 /\ sEntries[1].end = 2000


\* C13: trim_with_ffmpeg replaces the destination atomically: over every step
\* of the trim (the utility running, failing, the final removal and rename
\* succeeding or failing) the destination path holds either the content it
\* had before the step or the complete trimmed output, never a partial file
\* and never nothing where a file existed.
C13_DestinationPriorOrTrimmed ==
    [][(pc \in {"returned", "replace"} /\ download_result # <<>>
            /\ ~download_result[1].partial) =>
           fs'["output"] \in {fs["output"], TrimOf(fs[download_result[1].path])}]_vars


\* The last request was a range request (tier 1 or 2) and the service
\* fulfilled it.
RangeSucceeded ==
    requests # <<>> /\ Last(requests).ok
        /\ Last(requests).tier \in {"precise", "coarse"}

\* C14: whenever a run ends with exit status 0 the final clip is at exactly
\* the requested output path, whichever tier produced it; after a successful
\* tier-1 or tier-2 request download_clip returns that path, having renamed
\* the service's output to it when the names differ, and the run fails with
\* an error when that rename cannot complete.
C14_FinalClipAtOutputPath ==
    /\ exit_status = <<0>> =>
           /\ final_path = <<"output">>
           /\ fs["output"] \in {"cut", "trimmed_cut", "trimmed_whole"}
    /\ (RangeSucceeded /\ pc = "returned") =>
           /\ download_result[1].path = "output"
           /\ fs["output"] = "cut"
           /\ fs["produced"] = "absent"
    /\ (RangeSucceeded /\ pc # "finalize" /\ fs["produced"] # "absent") =>
           /\ exit_status = <<3>> /\ error = "rename"
           /\ download_result = <<>> /\ final_path = <<>>

C14_Witness ==
    /\ exit_status = <<0>> /\ ~args.output_has_suffix
    /\ Len(requests) = 2 /\ RangeSucceeded
    /\ final_path = <<"output">> /\ fs["output"] = "cut"


\* download_clip was called with a window of no length.
ZeroWindow ==
    download_call # <<>> /\ download_call[1].end = download_call[1].start

C16_OneClipWindow ==
    /\ clip # <<>> =>
           /\ match # <<>>
           /\ clip[1].start = Max(0, match[1].start - args.before)
           /\ clip[1].end = match[1].end + args.after
    /\ download_call # <<>> => download_call[1] = clip[1]
    /\ \A i \in 1..Len(trims) :
           trims[i].start = clip[1].start /\ trims[i].end = clip[1].end
    /\ \A i \in 1..Len(captions) :
           captions[i].start = clip[1].start /\ captions[i].end = clip[1].end

C16_Witness ==
    /\ exit_status = <<0>> /\ Len(trims) = 1 /\ Len(captions) = 1
    /\ match[1].start < args.before /\ clip[1].start = 0
    /\ download_call[1] = clip[1]
    /\ trims[1].end = clip[1].end /\ captions[1].end = clip[1].end


\* The stage that ended the run with an error.
FetchFailed == error = "transcript"
NoMatchFound == error = "no_match"
AcquisitionFailed == error \in {"window", "precise", "coarse", "full"}
RenameFailed == error = "rename"
TrimFailed == error \in {"trim", "finalize"}
CaptionWriteFailed == error = "subtitle"

\* Nothing was asked of the fetch service and no file was written.
NothingAcquired ==
    /\ download_call = <<>> /\ requests = <<>> /\ trims = <<>>
    /\ \A p \in Paths : fs[p] \in {"absent", "old"}

C18_SelectsNewestWhoeverStagedIt ==
    \A i \in Invocations :
        /\ \A k \in 1..Len(cListed[i]) :
               cListed[i][k].mtime <= cListed[i][1].mtime
        /\ cParsed[i] # <<>> =>
               /\ cParsed[i][1].name = cListed[i][1].name
               /\ cParsed[i][1].owner \in Invocations
               /\ cParsed[i][1].mtime >= cListed[i][1].mtime

C18_Witness ==
    /\ cVideo[1] # cVideo[2]
    /\ cStaged[1] /\ cStaged[2]
    /\ cParsed[1] # <<>> /\ cParsed[1][1].owner = 2
    /\ cParsed[1][1].name = cVideo[2]


\* The caption step was reached and ended the run.
CaptionStepDone == pc = "exit" /\ final_path # <<>>

\* C19: when no segment survives slicing, write_subtitle_file creates or
\* modifies no file and reports that there are no captions, and the run
\* still ends with exit status 0.
C19_NoCaptionsNoFile ==
    (CaptionStepDone
        /\ SubtitleEntries(runSegments, clip[1].start, clip[1].end) = <<>>) =>
        /\ fs["srt"] \in {"absent", "old"}
        /\ captions = <<[start |-> clip[1].start, end |-> clip[1].end,
                         entries |-> <<>>]>>
        /\ exit_status = <<0>> /\ error = "none"

C19_Witness ==
    /\ CaptionStepDone /\ runSegments # <<>>
    /\ captions # <<>> /\ captions[1].entries = <<>>
    /\ fs["srt"] = "old" /\ exit_status = <<0>>


\* The final clip is in place: the accepted download, or the trimmed file.
FinalClipInPlace ==
    /\ final_path = <<"output">> /\ download_result # <<>>
    /\ IF download_result[1].partial
       THEN trims = <<>> /\ fs["output"] = "cut"
       ELSE Len(trims) = 1 /\ fs["output"] \in {"trimmed_cut", "trimmed_whole"}

\* C20: within one invocation the steps occur in the order fetch transcript,
\* match, acquire clip, (optional) trim, slice captions, each only after the
\* one before it completed successfully: no acquisition request is made
\* before a match exists, nothing is trimmed before the acquisition returned,
\* and no caption file is written before the final clip (trimmed, when
\* trimming is required) is in place; a step that fails ends the run.
C20_StepsInOrder ==
    /\ (pc = "fetch" \/ FetchFailed) => match = <<>> /\ NothingAcquired
    /\ (download_call # <<>> \/ requests # <<>>) =>
           /\ match # <<>> /\ clip # <<>> /\ download_call # <<>>
           /\ pc \notin {"fetch", "match"}
    /\ (pc \in {"download", "tier1", "tier2", "tier3", "finalize", "assess"}
            \/ AcquisitionFailed \/ RenameFailed) =>
           /\ download_result = <<>> /\ trims = <<>> /\ final_path = <<>>
           /\ captions = <<>> /\ fs["srt"] # "captions"
    /\ trims # <<>> =>
           /\ download_result # <<>> /\ ~download_result[1].partial
           /\ Len(trims) = 1
    /\ (pc \in {"returned", "replace"} \/ TrimFailed) =>
           final_path = <<>> /\ captions = <<>> /\ fs["srt"] # "captions"
    /\ final_path # <<>> => FinalClipInPlace
    /\ (captions # <<>> \/ fs["srt"] = "captions") =>
           FinalClipInPlace /\ exit_status = <<0>>
    /\ error # "none" => pc = "exit" /\ exit_status # <<0>>

C20_Witness ==
    /\ exit_status = <<0>> /\ fs["srt"] = "captions"
    /\ Len(requests) = 3 /\ Len(trims) = 1
    /\ FinalClipInPlace /\ fs["output"] = "trimmed_whole"


\* C21: every Match returned by find_best_match describes one contiguous run
\* of segments: 1 <= segment_count <= max_window, start_segment_index +
\* segment_count <= number of segments, Match.start is the start of the first
\* segment of the run and Match.end the end of its last; a query that spans
\* two segments ("a xb" over "a" at 0-2 s and "xb" at 2-4 s, max_window 2)
\* yields the match of both segments, from 0 to 4 s.
C21_MatchIsContiguousRun ==
    (mPc = "returned" /\ mResult # <<>>) =>
        LET m == mResult[1]
        IN  /\ 1 <= m.segment_count /\ m.segment_count <= mMaxWindow
            /\ 0 <= m.start_segment_index
            /\ m.start_segment_index + m.segment_count <= Len(mSegments)
            /\ m.start = mSegments[m.start_segment_index + 1].start
            /\ m.end = mSegments[m.start_segment_index + m.segment_count].end
            /\ m.text = JoinTexts(mSegments, m.start_segment_index, m.segment_count)
            /\ (mSegments = TimedSegments(<<(<<"a">>), (<<"x", "b">>)>>)
                    /\ mQuery = <<"a", " ", "x", "b">> /\ mMaxWindow = 2) =>
                   /\ m.start_segment_index = 0 /\ m.segment_count = 2
                   /\ m.start = 0 /\ m.end = 4000

C21_Witness ==
    /\ mPc = "returned" /\ mResult # <<>>
    /\ mSegments = TimedSegments(<<(<<"a">>), (<<"x", "b">>)>>)
    /\ mQuery = <<"a", " ", "x", "b">> /\ mMaxWindow = 2
    /\ mResult[1].segment_count = 2 /\ mResult[1].end = 4000


\* A timestamp of the form HH:MM:SS,mmm with seconds 00..59 and exactly
\* three millisecond digits.
IsDigit(c) == \E d \in 1..10 : DigitChars[d] = c
IsSrtTimestamp(s) ==
    /\ Len(s) = 12
    /\ s[3] = ":" /\ s[6] = ":" /\ s[9] = ","
    /\ \A p \in {1, 2, 4, 5, 7, 8, 10, 11, 12} : IsDigit(s[p])
    /\ s[7] \in {"0", "1", "2", "3", "4", "5"}

\* C22: every timing line written has the form HH:MM:SS,mmm --> HH:MM:SS,mmm
\* with exactly three millisecond digits and seconds 00..59 on both sides,
\* for every non-negative entry time, among them the times whose fraction
\* rounds up to a whole second (x.9996 s); the entries are numbered 1, 2, 3,
\* ... without gaps.
C22_TimingLinesWellFormed ==
    fPc = "written" =>
        /\ Len(fLines) = Len(fEntries)
        /\ \A k \in 1..Len(fLines) :
               /\ fLines[k].index = Digits(k)
               /\ Len(fLines[k].timing) = 29
               /\ IsSrtTimestamp(SubSeq(fLines[k].timing, 1, 12))
               /\ SubSeq(fLines[k].timing, 13, 17) = Arrow
               /\ IsSrtTimestamp(SubSeq(fLines[k].timing, 18, 29))


\* C23: whenever the trim runs, its source is a full download, never a file
\* that a tier-1 or tier-2 range request already cut, so the offsets
\* clip_start..clip_end are measured from the origin of the source media and
\* on every successful run the final clip covers the clip window.
C23_TrimSourceIsFullDownload ==
    /\ \A i \in 1..Len(trims) : trims[i].source = "full"
    /\ (pc = "replace" /\ trims # <<>>) => fs["tmp"] = TrimOf("whole")
    /\ exit_status = <<0>> => fs["output"] \in {"cut", TrimOf("whole")}


\* C24: for every caption payload and all non-negative paddings the clip
\* window computed from a match satisfies clip_end > clip_start, so the
\* 'Clip end must be after clip start' rejection of download_clip (and of
\* trim_with_ffmpeg) is never triggered in a run.
C24_ClipWindowNeverEmpty ==
    /\ clip # <<>> => clip[1].end > clip[1].start
    /\ error # "window"


\* C25: a run that fails during acquisition or trimming (exit status 3)
\* leaves a file that existed at the destination path before the run
\* unchanged: a previous clip is removed or replaced only by a run that
\* completes successfully.
C25_FailedRunKeepsOldOutput ==
    (exit_status = <<3>> /\ fs_before["output"] = "old"
        /\ (AcquisitionFailed \/ RenameFailed \/ TrimFailed)) =>
        fs["output"] = "old"


\* C26: a title-lookup result is shown only if the lookup was started for the
\* URL now in the URL field: however URL edits, the debounce timer and the
\* completions of the workers interleave, the title label never holds a
\* result computed for a URL other than the one in the field.
C26_TitleIsOfCurrentUrl ==
    video_title_var.text = "result" => video_title_var.url = url_var


\* C27: the GUI supervises at most one child process at a time: _run_clipper
\* never spawns a process while one is tracked, and after every handler
\* (Run, Stop, a failed launch, the finished callback, in any order) the Run
\* button is enabled exactly when no process is tracked and the Stop button
\* exactly when one is; the tracked process is cleared only by the finished
\* callback of that same process.
FinishedPosted == SelectSeq(after_queue, LAMBDA c : c.kind = "finished")

C27_OneChildAndButtonsAgree ==
    /\ [](/\ Cardinality(children) + Len(FinishedPosted) <= 1
          /\ \A child \in children : process = <<child>>
          /\ \A k \in 1..Len(after_queue) : process = <<after_queue[k].child>>
          /\ run_button <=> process = <<>>
          /\ stop_button <=> process # <<>>)
    /\ [][/\ spawned' # spawned => process = <<>> /\ children = {}
          /\ (process # <<>> /\ process' # process) =>
                 /\ process' = <<>>
                 /\ after_queue # <<>>
                 /\ Head(after_queue).kind = "finished"
                 /\ Head(after_queue).child = process[1]
                 /\ after_queue' = Tail(after_queue)]_vars

C27_Witness ==
    /\ spawned = 2 /\ process = <<2>> /\ children = {2}
    /\ 1 \in terminated /\ ~run_button /\ stop_button


\* C28: the payload parsed by fetch_transcript_segments is always one staged
\* by the same invocation's download: with invocations run one after another
\* in one working directory (also after an invocation that failed or was
\* terminated after staging a file) no invocation parses a file left behind
\* by an earlier one, and once fetch_transcript_segments has returned none of
\* the files it listed remains in the scratch directory.
C28_ParsesOwnPayload ==
    \A i \in Invocations :
        /\ cParsed[i] # <<>> => cParsed[i][1].owner = i /\ cStaged[i]
        /\ cPc[i] = "returned" =>
               \A k \in 1..Len(cListed[i]) :
                   LET file == cDir[cListed[i][k].name]
                   IN  file = <<>> \/ file[1].mtime > cListed[i][k].mtime

====
